---- MODULE Spec2Model ----
(***************************************************************************)
(* Fish Miner: the game-state engine of src/src/hooks/useGameState.js as   *)
(* it is driven by src/src/components/Game.jsx.                            *)
(*                                                                         *)
(* The variables named after the source are the React state cells as of    *)
(* the last commit.  A handler (timer callback, delayed callback, click)   *)
(* runs to completion and its setState calls are committed with it; the    *)
(* passive effects of a commit (useEffect bodies and clean-ups) run in a   *)
(* later step, RunEffects.  Until then the interval timers created by the  *)
(* previous flush are still installed, with the values they closed over    *)
(* (flushed).  Clicks are discrete events: React flushes their effects     *)
(* synchronously, so a click handler and its effects are one step.         *)
(***************************************************************************)
EXTENDS Integers, Sequences, FiniteSets, TLC

VARIABLES
  score,            \* useGameState.js:13
  timeLeft,         \* useGameState.js:14
  isGameActive,     \* useGameState.js:15
  gameObjects,      \* useGameState.js:16, sequence of items in insertion order
  hookPosition,     \* useGameState.js:17
  hookDirection,    \* useGameState.js:18
  catchAnimation,   \* useGameState.js:19
  lastCaughtItem,   \* useGameState.js:20, <<>> for null, <<item>> otherwise
                    \* (catchTime is left out: no item is caught twice)
  gameOver,         \* Game.jsx:16
  flushed,          \* dependency values the installed effects closed over
  feedbackTimer,    \* the 1500ms feedback timeout is pending
  timeouts,         \* pending D1 and D2 callbacks, in the order they were set
  now,              \* Date.now() as read by the spawner, a strictly growing stamp
  lag,              \* timer callbacks run since effects became pending
  lastOp,           \* the handler that ran last (history)
  removedPoints,    \* points of the items catches took out of gameObjects
                    \* in this session (history)
  scoresDb,         \* firestoreService: the documents of collection 'scores'
  highScoresDb,     \* firestoreService: the documents of collection 'highScores'
  scores,           \* ScoreManager.jsx:10, the list of the score manager
  loading,          \* ScoreManager.jsx:12
  error,            \* ScoreManager.jsx:13
  highScores,       \* ScoreManager.jsx:103, leaderboard of the game-over screen
  highScoresLoading,\* ScoreManager.jsx:104, its loading
  highScoresError,  \* ScoreManager.jsx:105, its error
  calls,            \* the persistence calls the last step made, with the way
                    \* each promise settled (history)
  localStorage      \* the item 'fishMinerGameState' of the browser's localStorage
                    \* (useGameState.js:10), <<>> when absent, <<gameState>> otherwise

vars == <<score, timeLeft, isGameActive, gameObjects, hookPosition, hookDirection,
          catchAnimation, lastCaughtItem, gameOver, flushed, feedbackTimer,
          timeouts, now, lag, lastOp, removedPoints,
          scoresDb, highScoresDb, scores, loading, error,
          highScores, highScoresLoading, highScoresError, calls, localStorage>>

\* The persistence store and the components that show it
storeVars == <<scoresDb, highScoresDb, scores, loading, error,
               highScores, highScoresLoading, highScoresError>>

hookVars == <<score, timeLeft, isGameActive, gameObjects, hookPosition, hookDirection,
              catchAnimation, lastCaughtItem>>

----------------------------------------------------------------------------
(* Program constants *)

GAME_DURATION == 60
TARGET_SCORE == 500
MIN_POSITION == 20
MAX_POSITION == 460
HOOK_START == 250
HOOK_STEP == 3
FALL_STEP == 5
FIELD_BOTTOM == 480
HOOK_Y == 350
CATCH_DX == 40
CATCH_DY == 100
D1 == 500
FALL_INTERVAL == 50
SPAWN_INTERVAL == 2000
COUNTDOWN_INTERVAL == 1000

NULL == "null"

(* Bounds of the exploration *)

MaxSpawns == 1        \* items spawned in one run
MaxItems == 1         \* live items at a time
MaxTimeouts == 2      \* pending catch callbacks (D1 and D2 together)
MaxLag == 1           \* timer callbacks that run before pending effects are flushed
SweepSpan == 1        \* sweep ticks away from the start position in the full model
LateWindow == 1       \* seconds before the end in which the timers interleave freely

\* The vertical positions of the live items at which the player presses Catch!:
\* just above the catch band (the item enters it during D1) and low in the
\* band (the item is pruned during D1 unless the callback runs early)
ClickYs == {HOOK_Y - CATCH_DY, HOOK_Y + CATCH_DY - FALL_STEP}

\* The fish formula with the upper roll reaching 60 points
NewItemPointsTo60(type, roll) ==
  IF type = "fish" THEN 20 + roll + 1
  ELSE IF type = "garbage" THEN 0 - 30 - roll
  ELSE roll - 50

\* The points of a new item; roll is Math.floor(Math.random() * n), a value
\* of 0..39 for a fish, of 0..19 for garbage and of 0..100 for a mystery item.
NewItemPoints(type, roll) ==
  IF type = "fish" THEN 20 + roll
  ELSE IF type = "garbage" THEN 0 - 30 - roll
  ELSE roll - 50

NewItem(x, type, roll) ==
  [x |-> x, type |-> type, points |-> NewItemPoints(type, roll)]

\* The horizontal draw reaching the right edge of the board
SpawnXInclusive(r) == 40 + r + 1

\* The horizontal position of a new item, 40 + Math.random() * 420, to the
\* pixel; r is Math.floor(Math.random() * 420), a value of 0..419.
SpawnX(r) == 40 + r

\* Draws of the spawner: Math.random() for x, type and points
SpawnDraws == { NewItem(245, "fish", 39), NewItem(211, "garbage", 0) }

----------------------------------------------------------------------------
(* Helpers *)

Abs(n) == IF n < 0 THEN 0 - n ELSE n

Deps == [isGameActive |-> isGameActive, hookDirection |-> hookDirection,
         timeLeft |-> timeLeft, score |-> score, lastCaughtItem |-> lastCaughtItem]

EffectsPending == Deps # flushed

\* Interval timers exist as the last flush left them.
SpawnTimerOn == flushed.isGameActive
FallTimerOn == flushed.isGameActive
SweepTimerOn == flushed.isGameActive
\* The countdown interval installed whatever timeLeft is
CountdownTimerAlways == flushed.isGameActive

CountdownTimerOn == flushed.isGameActive /\ flushed.timeLeft > 0

\* The delayed callbacks of dropHook
CatchCallback(hookX, objs, prev) ==
  [kind |-> "catch", hookX |-> hookX, objs |-> objs, age |-> 0, prev |-> prev]

LiftCallback(prev) ==
  [kind |-> "lift", hookX |-> 0, objs |-> <<>>, age |-> 0, prev |-> prev]

\* A timer callback may overtake the flush of pending effects MaxLag times.
TimerMayFire == (~EffectsPending) \/ lag < MaxLag
LagAfter == IF EffectsPending THEN lag + 1 ELSE 0

\* The catch window with its edges included
QualifiesInclusive(obj, hookX) ==
  Abs(obj.x - hookX) <= CATCH_DX /\ Abs(obj.y - HOOK_Y) <= CATCH_DY

\* gameObjects.find(...) of the D1 callback
Qualifies(obj, hookX) ==
  Abs(obj.x - hookX) < CATCH_DX /\ Abs(obj.y - HOOK_Y) < CATCH_DY

FindCaught(objs, hookX) ==
  LET idx == { i \in 1..Len(objs) : Qualifies(objs[i], hookX) }
  IN IF idx = {} THEN <<>>
     ELSE <<objs[CHOOSE i \in idx : \A j \in idx : i <= j]>>

\* The fall with items kept on the lower edge
FallenKeepsEdge(objs) ==
  LET moved == [i \in 1..Len(objs) |-> [objs[i] EXCEPT !.y = @ + FALL_STEP]]
      Keep(o) == o.y <= FIELD_BOTTOM
  IN SelectSeq(moved, Keep)

\* prev.map(y + 5).filter(y < 480)
Fallen(objs) ==
  LET moved == [i \in 1..Len(objs) |-> [objs[i] EXCEPT !.y = @ + FALL_STEP]]
      Keep(o) == o.y < FIELD_BOTTOM
  IN SelectSeq(moved, Keep)

\* prev.filter(obj.id !== id)
WithoutId(objs, id) ==
  LET Keep(o) == o.id # id IN SelectSeq(objs, Keep)

\* History: the points of the items of objs that filtering out id removes
RECURSIVE Removed(_, _)
Removed(objs, id) ==
  IF objs = <<>> THEN 0
  ELSE (IF Head(objs).id = id THEN Head(objs).points ELSE 0) + Removed(Tail(objs), id)

----------------------------------------------------------------------------
(* The persistence service (firestoreService).  A document is its          *)
(* identifier with the fields score and playerName; the date fields are    *)
(* left out, nothing reads them.  ok is the outcome of the Firestore       *)
(* request: it fails when the store is unreachable or refuses it.          *)

\* addDoc: the new document gets an identifier no document of the collection has
AddDoc(db, points, playerName) ==
  LET ids == { r.id : r \in db }
      newId == 1 + (IF ids = {} THEN 0 ELSE CHOOSE m \in ids : \A k \in ids : k <= m)
  IN db \cup { [id |-> newId, score |-> points, playerName |-> playerName] }

\* deleteDoc(doc(db, COLLECTION_NAME, scoreId))
DeleteDoc(db, scoreId) == { r \in db : r.id # scoreId }

\* updateDoc(scoreRef, { score: newScore })
UpdateDoc(db, scoreId, newScore) ==
  { IF r.id = scoreId THEN [r EXCEPT !.score = newScore] ELSE r : r \in db }

\* orderBy('score', 'desc'): equal scores are ordered by document
\* identifier, in the direction of the last orderBy
Before(a, b) == a.score > b.score \/ (a.score = b.score /\ a.id > b.id)

\* The query without its limit
GetHighScoresUnlimited(db, limitCount) ==
  LET Pos(r) == 1 + Cardinality({ b \in db : Before(b, r) })
  IN [i \in 1..Cardinality(db) |-> CHOOSE r \in db : Pos(r) = i]

\* getHighScores: query(scores, orderBy('score', 'desc'), limit(limitCount)),
\* each document mapped to { id: doc.id, ...doc.data() }
GetHighScores(db, limitCount) ==
  LET Pos(r) == 1 + Cardinality({ b \in db : Before(b, r) })
      n == IF Cardinality(db) < limitCount THEN Cardinality(db) ELSE limitCount
  IN [i \in 1..n |-> CHOOSE r \in db : Pos(r) = i]

\* How the promise of each service function settles.  saveHighScore catches
\* the error of addDoc and only logs it; the other functions rethrow.
SaveHighScoreCall(ok) == [fn |-> "saveHighScore", failed |-> ~ok, rejected |-> FALSE]
GetHighScoresCall(ok) == [fn |-> "getHighScores", failed |-> ~ok, rejected |-> ~ok]
UpdateScoreCall(ok) == [fn |-> "updateScore", failed |-> ~ok, rejected |-> ~ok]
DeleteScoreCall(ok) == [fn |-> "deleteScore", failed |-> ~ok, rejected |-> ~ok]

----------------------------------------------------------------------------
\* The state after the first render, whatever the collections hold
InitSession ==
  /\ score = 0
  /\ timeLeft = GAME_DURATION
  /\ isGameActive = FALSE
  /\ gameObjects = <<>>
  /\ hookPosition = HOOK_START
  /\ hookDirection = 1
  /\ catchAnimation = NULL
  /\ lastCaughtItem = <<>>
  /\ gameOver = FALSE
  /\ flushed = [isGameActive |-> FALSE, hookDirection |-> 1,
                timeLeft |-> GAME_DURATION, score |-> 0, lastCaughtItem |-> <<>>]
  /\ feedbackTimer = FALSE
  /\ timeouts = <<>>
  /\ now = 0
  /\ lag = 0
  /\ lastOp = "mount"
  /\ removedPoints = 0
  /\ scores = <<>>
  /\ loading = TRUE
  /\ error = NULL
  /\ highScores = <<>>
  /\ highScoresLoading = TRUE
  /\ highScoresError = NULL
  /\ calls = <<>>
  /\ localStorage = <<[score |-> 0, timeLeft |-> GAME_DURATION]>>

\* The game models start with empty collections.
Init ==
  /\ InitSession
  /\ scoresDb = {}
  /\ highScoresDb = {}

----------------------------------------------------------------------------
\* startGame without its setScore(0)
startGameKeepScore ==
  /\ score' = score
  /\ timeLeft' = GAME_DURATION
  /\ isGameActive' = TRUE
  /\ gameObjects' = <<>>
  /\ hookPosition' = HOOK_START
  /\ hookDirection' = 1
  /\ catchAnimation' = NULL
  /\ lastCaughtItem' = <<>>
  /\ flushed' = [isGameActive |-> TRUE, hookDirection |-> 1,
                 timeLeft |-> GAME_DURATION, score |-> score, lastCaughtItem |-> <<>>]
  /\ feedbackTimer' = IF lastCaughtItem # <<>> THEN FALSE ELSE feedbackTimer
  /\ lag' = 0
  /\ removedPoints' = 0
  /\ timeouts' = [i \in 1..Len(timeouts) |-> [timeouts[i] EXCEPT !.prev = TRUE]]
  /\ UNCHANGED now
  /\ localStorage' = IF flushed.timeLeft # GAME_DURATION
                       THEN <<[score |-> score, timeLeft |-> GAME_DURATION]>>
                       ELSE <<>>
  /\ scores' = <<>> /\ loading' = TRUE /\ error' = NULL
  /\ calls' = <<>>
  /\ UNCHANGED <<scoresDb, highScoresDb, highScores, highScoresLoading, highScoresError>>

(* startGame, with the effects of its commit: the intervals are installed  *)
(* (flushed), the feedback timeout of a dropped snapshot is cleared.  The  *)
(* pending delayed callbacks stay; prev marks them as set before the       *)
(* intervals of this session were installed.                               *)
startGame ==
  /\ score' = 0
  /\ timeLeft' = GAME_DURATION
  /\ isGameActive' = TRUE
  /\ gameObjects' = <<>>
  /\ hookPosition' = HOOK_START
  /\ hookDirection' = 1
  /\ catchAnimation' = NULL
  /\ lastCaughtItem' = <<>>
  /\ flushed' = [isGameActive |-> TRUE, hookDirection |-> 1,
                 timeLeft |-> GAME_DURATION, score |-> 0, lastCaughtItem |-> <<>>]
  /\ feedbackTimer' = IF lastCaughtItem # <<>> THEN FALSE ELSE feedbackTimer
  /\ lag' = 0
  /\ removedPoints' = 0
  /\ timeouts' = [i \in 1..Len(timeouts) |-> [timeouts[i] EXCEPT !.prev = TRUE]]
  /\ UNCHANGED now
  /\ localStorage' = IF flushed.score # 0 \/ flushed.timeLeft # GAME_DURATION
                       THEN <<[score |-> 0, timeLeft |-> GAME_DURATION]>>
                       ELSE <<>>
  /\ scores' = <<>> /\ loading' = TRUE /\ error' = NULL
  /\ calls' = <<>>
  /\ UNCHANGED <<scoresDb, highScoresDb, highScores, highScoresLoading, highScoresError>>

\* Game.jsx: the Start / Play Again button, rendered while the session is inactive
handleStartGame ==
  /\ ~EffectsPending
  /\ ~gameOver /\ ~isGameActive
  /\ startGame
  /\ gameOver' = FALSE
  /\ lastOp' = "start"

\* Game.jsx: Play Again Without Saving, on the game-over screen
resetGame ==
  /\ ~EffectsPending
  /\ gameOver
  /\ startGame
  /\ UNCHANGED gameOver
  /\ lastOp' = "reset"

\* handleSaveScore resetting the score when the save failed
handleSaveScoreRollback(playerName, ok) ==
  /\ ~EffectsPending
  /\ gameOver
  /\ LET c == SaveHighScoreCall(ok)
     IN /\ highScoresDb' = IF c.failed THEN highScoresDb
                            ELSE AddDoc(highScoresDb, score,
                                        IF playerName = "" THEN "Anonymous" ELSE playerName)
        /\ score' = IF c.failed THEN 0 ELSE score
        /\ calls' = <<c>>
  /\ gameOver' = FALSE
  /\ highScores' = <<>> /\ highScoresLoading' = TRUE /\ highScoresError' = NULL
  /\ lastOp' = "save"
  /\ UNCHANGED <<timeLeft, isGameActive, gameObjects, hookPosition, hookDirection,
                 catchAnimation, lastCaughtItem, flushed, feedbackTimer, timeouts,
                 now, lag, removedPoints, scoresDb, scores, loading, error, localStorage>>

(* Game.jsx: Save Score on the game-over screen.  playerName is the text   *)
(* of the name input at the click.  The promise of saveHighScore resolves  *)
(* whether or not the document was written, the handler goes on and the    *)
(* game-over screen, with its leaderboard, is left.  The request is taken  *)
(* to settle before the next event.                                        *)
handleSaveScore(playerName, ok) ==
  /\ ~EffectsPending
  /\ gameOver
  /\ LET c == SaveHighScoreCall(ok)
     IN /\ highScoresDb' = IF c.failed THEN highScoresDb
                            ELSE AddDoc(highScoresDb, score,
                                        IF playerName = "" THEN "Anonymous" ELSE playerName)
        /\ calls' = <<c>>
  /\ gameOver' = FALSE
  /\ highScores' = <<>> /\ highScoresLoading' = TRUE /\ highScoresError' = NULL
  /\ lastOp' = "save"
  /\ UNCHANGED <<hookVars, flushed, feedbackTimer, timeouts, now, lag, removedPoints,
                 scoresDb, scores, loading, error, localStorage>>

----------------------------------------------------------------------------
\* dropHook with its guard reduced to the catchAnimation check
dropHookAnyTime ==
  /\ IF catchAnimation = NULL
       THEN /\ catchAnimation' = "dropping"
            /\ timeouts' = Append(timeouts, CatchCallback(hookPosition, gameObjects, FALSE))
            /\ lastOp' = "drop"
       ELSE /\ UNCHANGED <<catchAnimation, timeouts>>
            /\ lastOp' = "dropIgnored"
  /\ UNCHANGED <<score, timeLeft, isGameActive, gameObjects, hookPosition,
                 hookDirection, lastCaughtItem, gameOver, flushed, feedbackTimer,
                 now, lag, removedPoints>>
  /\ calls' = <<>>
  /\ UNCHANGED <<storeVars, localStorage>>

\* dropHook taking the snapshot of the item in reach at the request already
dropHookEager ==
  /\ IF isGameActive /\ catchAnimation = NULL
       THEN /\ catchAnimation' = "dropping"
            /\ lastCaughtItem' = FindCaught(gameObjects, hookPosition)
            /\ timeouts' = Append(timeouts, CatchCallback(hookPosition, gameObjects, FALSE))
            /\ lastOp' = "drop"
       ELSE /\ UNCHANGED <<catchAnimation, lastCaughtItem, timeouts>>
            /\ lastOp' = "dropIgnored"
  /\ UNCHANGED <<score, timeLeft, isGameActive, gameObjects, hookPosition,
                 hookDirection, gameOver, flushed, feedbackTimer,
                 now, lag, removedPoints>>
  /\ calls' = <<>>
  /\ UNCHANGED <<storeVars, localStorage>>

(* dropHook.  The callback reads hookPosition and gameObjects from the     *)
(* closure of the render in which dropHook was created, so the D1 callback *)
(* keeps the values of the moment of the request.                          *)
dropHook ==
  /\ IF isGameActive /\ catchAnimation = NULL
       THEN /\ catchAnimation' = "dropping"
            /\ timeouts' = Append(timeouts, CatchCallback(hookPosition, gameObjects, FALSE))
            /\ lastOp' = "drop"
       ELSE /\ UNCHANGED <<catchAnimation, timeouts>>
            /\ lastOp' = "dropIgnored"
  /\ UNCHANGED <<score, timeLeft, isGameActive, gameObjects, hookPosition,
                 hookDirection, lastCaughtItem, gameOver, flushed, feedbackTimer,
                 now, lag, removedPoints>>
  /\ calls' = <<>>
  /\ UNCHANGED <<storeVars, localStorage>>

(* The Catch! button of GameBoard: rendered while the game-over screen is  *)
(* not shown (Game.jsx:74), disabled while an animation runs               *)
(* (GameBoard.js:34).  A click is handled on the committed render.         *)
CatchClick ==
  /\ ~EffectsPending
  /\ ~gameOver
  /\ catchAnimation = NULL
  /\ dropHook

\* The D1 callback with a retracting phase on its no-catch branch as well
CatchTimeoutAlwaysLifts ==
  /\ timeouts # <<>>
  /\ Head(timeouts).kind = "catch"
  /\ TimerMayFire
  /\ LET c == Head(timeouts)
         caughtObject == FindCaught(c.objs, c.hookX)
     IN IF caughtObject # <<>>
          THEN /\ lastCaughtItem' = caughtObject
               /\ score' = score + caughtObject[1].points
               /\ gameObjects' = WithoutId(gameObjects, caughtObject[1].id)
               /\ removedPoints' = removedPoints + Removed(gameObjects, caughtObject[1].id)
          ELSE UNCHANGED <<lastCaughtItem, score, gameObjects, removedPoints>>
  /\ catchAnimation' = "lifting"
  /\ timeouts' = Append(Tail(timeouts), LiftCallback(Head(timeouts).prev))
  /\ lag' = LagAfter
  /\ lastOp' = "catch"
  /\ UNCHANGED <<timeLeft, isGameActive, hookPosition, hookDirection, gameOver,
                 flushed, feedbackTimer, now>>
  /\ calls' = <<>>
  /\ UNCHANGED <<storeVars, localStorage>>

(* The D1 callback of dropHook (setTimeout 500).  D1 and D2 are the same   *)
(* delay, so these callbacks run in the order they were set.               *)
CatchTimeout ==
  /\ timeouts # <<>>
  /\ Head(timeouts).kind = "catch"
  /\ TimerMayFire
  /\ LET c == Head(timeouts)
         caughtObject == FindCaught(c.objs, c.hookX)
     IN IF caughtObject # <<>>
          THEN /\ lastCaughtItem' = caughtObject
               /\ score' = score + caughtObject[1].points
               /\ gameObjects' = WithoutId(gameObjects, caughtObject[1].id)
               /\ removedPoints' = removedPoints + Removed(gameObjects, caughtObject[1].id)
               /\ catchAnimation' = "lifting"
               /\ timeouts' = Append(Tail(timeouts), LiftCallback(c.prev))
          ELSE /\ catchAnimation' = NULL
               /\ timeouts' = Tail(timeouts)
               /\ UNCHANGED <<lastCaughtItem, score, gameObjects, removedPoints>>
  /\ lag' = LagAfter
  /\ lastOp' = "catch"
  /\ UNCHANGED <<timeLeft, isGameActive, hookPosition, hookDirection, gameOver,
                 flushed, feedbackTimer, now>>
  /\ calls' = <<>>
  /\ UNCHANGED <<storeVars, localStorage>>

\* The D2 callback (setTimeout 500 inside the D1 callback)
LiftTimeout ==
  /\ timeouts # <<>>
  /\ Head(timeouts).kind = "lift"
  /\ TimerMayFire
  /\ catchAnimation' = NULL
  /\ timeouts' = Tail(timeouts)
  /\ lag' = LagAfter
  /\ lastOp' = "lift"
  /\ UNCHANGED <<score, timeLeft, isGameActive, gameObjects, hookPosition,
                 hookDirection, lastCaughtItem, gameOver, flushed, feedbackTimer, now, removedPoints>>
  /\ calls' = <<>>
  /\ UNCHANGED <<storeVars, localStorage>>

\* The feedback timeout (setTimeout 1500 of the lastCaughtItem effect)
FeedbackTimeout ==
  /\ feedbackTimer
  /\ TimerMayFire
  /\ lastCaughtItem' = <<>>
  /\ feedbackTimer' = FALSE
  /\ lag' = LagAfter
  /\ lastOp' = "feedback"
  /\ UNCHANGED <<score, timeLeft, isGameActive, gameObjects, hookPosition,
                 hookDirection, catchAnimation, gameOver, flushed, timeouts, now, removedPoints>>
  /\ calls' = <<>>
  /\ UNCHANGED <<storeVars, localStorage>>

----------------------------------------------------------------------------
(* Interval callbacks.  Timing: a D1 or D2 callback is due 500ms after it  *)
(* was set.  It has run before the fall interval (50ms) ticked more than   *)
(* D1/50 times (age counts these ticks), and a callback set before the     *)
(* intervals of the session were installed has run before the first spawn  *)
(* (2000ms) and the first countdown tick (1000ms) of that session.  The    *)
(* spawn and fall intervals are installed and cleared together, so a fall  *)
(* tick runs between any two spawn ticks.                                  *)

NoPrevTimeout == \A i \in 1..Len(timeouts) : ~timeouts[i].prev

\* The spawner stamping items with a clock that advances every other spawn
SpawnTickCoarseClock(draw) ==
  /\ SpawnTimerOn
  /\ TimerMayFire
  /\ NoPrevTimeout
  /\ \A i \in 1..Len(gameObjects) : gameObjects[i].y > 0
  /\ gameObjects' = Append(gameObjects,
       [id |-> 1 + (now \div 2), type |-> draw.type, points |-> draw.points,
        x |-> draw.x, y |-> 0])
  /\ now' = now + 1
  /\ lag' = LagAfter
  /\ lastOp' = "spawn"
  /\ UNCHANGED <<score, timeLeft, isGameActive, hookPosition, hookDirection,
                 catchAnimation, lastCaughtItem, gameOver, flushed, feedbackTimer,
                 timeouts, removedPoints>>
  /\ calls' = <<>>
  /\ UNCHANGED <<storeVars, localStorage>>

\* Spawn interval (2000ms); draw is the outcome of the Math.random() calls.
SpawnTick(draw) ==
  /\ SpawnTimerOn
  /\ TimerMayFire
  /\ NoPrevTimeout
  /\ \A i \in 1..Len(gameObjects) : gameObjects[i].y > 0
  /\ gameObjects' = Append(gameObjects,
       [id |-> now + 1, type |-> draw.type, points |-> draw.points,
        x |-> draw.x, y |-> 0])
  /\ now' = now + 1
  /\ lag' = LagAfter
  /\ lastOp' = "spawn"
  /\ UNCHANGED <<score, timeLeft, isGameActive, hookPosition, hookDirection,
                 catchAnimation, lastCaughtItem, gameOver, flushed, feedbackTimer,
                 timeouts, removedPoints>>
  /\ calls' = <<>>
  /\ UNCHANGED <<storeVars, localStorage>>

\* The fall tick taking a point off the score for every item it prunes
FallTickPenalty ==
  /\ FallTimerOn
  /\ TimerMayFire
  /\ \A i \in 1..Len(timeouts) : timeouts[i].age < D1 \div FALL_INTERVAL
  /\ gameObjects' = Fallen(gameObjects)
  /\ score' = score - (Len(gameObjects) - Len(Fallen(gameObjects)))
  /\ timeouts' = [i \in 1..Len(timeouts) |-> [timeouts[i] EXCEPT !.age = @ + 1]]
  /\ lag' = LagAfter
  /\ lastOp' = "fall"
  /\ UNCHANGED <<timeLeft, isGameActive, hookPosition, hookDirection,
                 catchAnimation, lastCaughtItem, gameOver, flushed, feedbackTimer, now, removedPoints>>
  /\ calls' = <<>>
  /\ UNCHANGED <<storeVars, localStorage>>

\* Fall interval (50ms)
FallTick ==
  /\ FallTimerOn
  /\ TimerMayFire
  /\ \A i \in 1..Len(timeouts) : timeouts[i].age < D1 \div FALL_INTERVAL
  /\ gameObjects' = Fallen(gameObjects)
  /\ timeouts' = [i \in 1..Len(timeouts) |-> [timeouts[i] EXCEPT !.age = @ + 1]]
  /\ lag' = LagAfter
  /\ lastOp' = "fall"
  /\ UNCHANGED <<score, timeLeft, isGameActive, hookPosition, hookDirection,
                 catchAnimation, lastCaughtItem, gameOver, flushed, feedbackTimer, now, removedPoints>>
  /\ calls' = <<>>
  /\ UNCHANGED <<storeVars, localStorage>>

\* The sweep tick flipping at a bound without clamping the position
SweepTickNoClamp ==
  /\ SweepTimerOn
  /\ TimerMayFire
  /\ LET dir == flushed.hookDirection
         newPosition == hookPosition + dir * HOOK_STEP
     IN /\ hookPosition' = newPosition
        /\ hookDirection' = IF newPosition >= MAX_POSITION /\ dir > 0 THEN 0 - 1
                             ELSE IF newPosition <= MIN_POSITION /\ dir < 0 THEN 1
                             ELSE hookDirection
  /\ lag' = LagAfter
  /\ lastOp' = "sweep"
  /\ UNCHANGED <<score, timeLeft, isGameActive, gameObjects, catchAnimation,
                 lastCaughtItem, gameOver, flushed, feedbackTimer, timeouts, now, removedPoints>>
  /\ calls' = <<>>
  /\ UNCHANGED <<storeVars, localStorage>>

(* Sweep interval (16ms).  hookDirection is the value the interval closed  *)
(* over when the effect installed it; prev is the current position.        *)
SweepTick ==
  /\ SweepTimerOn
  /\ TimerMayFire
  /\ LET dir == flushed.hookDirection
         newPosition == hookPosition + dir * HOOK_STEP
     IN IF newPosition >= MAX_POSITION /\ dir > 0
          THEN hookDirection' = 0 - 1 /\ hookPosition' = MAX_POSITION
          ELSE IF newPosition <= MIN_POSITION /\ dir < 0
                 THEN hookDirection' = 1 /\ hookPosition' = MIN_POSITION
                 ELSE hookPosition' = newPosition /\ UNCHANGED hookDirection
  /\ lag' = LagAfter
  /\ lastOp' = "sweep"
  /\ UNCHANGED <<score, timeLeft, isGameActive, gameObjects, catchAnimation,
                 lastCaughtItem, gameOver, flushed, feedbackTimer, timeouts, now, removedPoints>>
  /\ calls' = <<>>
  /\ UNCHANGED <<storeVars, localStorage>>

\* The countdown starting over instead of reaching 0
CountdownTickWraps ==
  /\ CountdownTimerOn
  /\ flushed.timeLeft = timeLeft
  /\ TimerMayFire
  /\ NoPrevTimeout
  /\ timeLeft' = IF timeLeft = 1 THEN GAME_DURATION ELSE timeLeft - 1
  /\ lag' = LagAfter
  /\ lastOp' = "countdown"
  /\ UNCHANGED <<score, isGameActive, gameObjects, hookPosition, hookDirection,
                 catchAnimation, lastCaughtItem, gameOver, flushed, feedbackTimer,
                 timeouts, now, removedPoints>>
  /\ calls' = <<>>
  /\ UNCHANGED <<storeVars, localStorage>>

(* Countdown interval (1000ms).  The effect depends on timeLeft, so every  *)
(* tick is followed by a flush that replaces the interval; one interval    *)
(* instance ticks once.                                                    *)
CountdownTick ==
  /\ CountdownTimerOn
  /\ flushed.timeLeft = timeLeft
  /\ TimerMayFire
  /\ NoPrevTimeout
  /\ timeLeft' = timeLeft - 1
  /\ lag' = LagAfter
  /\ lastOp' = "countdown"
  /\ UNCHANGED <<score, isGameActive, gameObjects, hookPosition, hookDirection,
                 catchAnimation, lastCaughtItem, gameOver, flushed, feedbackTimer,
                 timeouts, now, removedPoints>>
  /\ calls' = <<>>
  /\ UNCHANGED <<storeVars, localStorage>>

----------------------------------------------------------------------------
(* The passive effects of the last commit, run for the dependencies that   *)
(* changed since the previous flush.                                       *)

\* useGameState.js timer effect: its else-branch calls endGame()
TimerEffectEnds ==
  /\ (flushed.isGameActive # isGameActive \/ flushed.timeLeft # timeLeft)
  /\ ~(isGameActive /\ timeLeft > 0)
  /\ timeLeft = 0

\* The time-out effect whose handleEndGame already sees the session ended by
\* the hook's timer effect
TimeOutEffectEndsAfterHook ==
  /\ (flushed.isGameActive # isGameActive \/ flushed.timeLeft # timeLeft)
  /\ timeLeft = 0 /\ isGameActive /\ ~TimerEffectEnds

\* Game.jsx time-out effect calls handleEndGame()
TimeOutEffectEnds ==
  /\ (flushed.isGameActive # isGameActive \/ flushed.timeLeft # timeLeft)
  /\ timeLeft = 0 /\ isGameActive

\* The target-score effect ending the session at any positive score
TargetEffectEndsEarly ==
  /\ (flushed.isGameActive # isGameActive \/ flushed.score # score)
  /\ score > 0 /\ isGameActive

\* Game.jsx target-score effect calls handleEndGame()
TargetEffectEnds ==
  /\ (flushed.isGameActive # isGameActive \/ flushed.score # score)
  /\ score >= TARGET_SCORE /\ isGameActive

\* The localStorage effect with score as its only dependency
GameStateSavedOnScore ==
  IF flushed.score # score
    THEN <<[score |-> score, timeLeft |-> timeLeft]>>
    ELSE localStorage

\* useGameState.js localStorage effect: the item after the flush
GameStateSaved ==
  IF flushed.score # score \/ flushed.timeLeft # timeLeft
    THEN <<[score |-> score, timeLeft |-> timeLeft]>>
    ELSE localStorage

RunEffects ==
  /\ EffectsPending
  /\ isGameActive' = IF TimerEffectEnds \/ TimeOutEffectEnds \/ TargetEffectEnds
                       THEN FALSE ELSE isGameActive
  /\ gameOver' = IF TimeOutEffectEnds \/ TargetEffectEnds THEN TRUE ELSE gameOver
  /\ feedbackTimer' = IF flushed.lastCaughtItem # lastCaughtItem
                        THEN lastCaughtItem # <<>> ELSE feedbackTimer
  /\ flushed' = Deps
  /\ lag' = 0
  /\ lastOp' = "effects"
  /\ localStorage' = GameStateSaved
  /\ UNCHANGED <<score, timeLeft, gameObjects, hookPosition, hookDirection,
                 catchAnimation, lastCaughtItem, timeouts, now, removedPoints>>
  /\ calls' = <<>>
  /\ UNCHANGED storeVars

----------------------------------------------------------------------------
(* The full model.  The store is out of reach in the game models (every    *)
(* save fails); SpecScores and SpecManager explore the store.  Explored    *)
(* schedules: the spawns, sweeps and requests of a session fall into its   *)
(* first second or its last LateWindow seconds, the seconds in between     *)
(* pass while nothing is in flight; the player presses Catch! at the       *)
(* moments of ClickYs.                                                     *)

Played == (~isGameActive) \/ timeLeft = GAME_DURATION \/ timeLeft <= LateWindow

Quiet ==
  /\ gameObjects = <<>>
  /\ timeouts = <<>>
  /\ catchAnimation = NULL
  /\ lastCaughtItem = <<>>
  /\ ~feedbackTimer
  /\ hookPosition = HOOK_START

ClickMoment == \A i \in 1..Len(gameObjects) : gameObjects[i].y \in ClickYs

NearStart == Abs(hookPosition' - HOOK_START) <= SweepSpan * HOOK_STEP

\* The countdown tick as the full model schedules it
PacedCountdown == (timeLeft > LateWindow => Quiet) /\ CountdownTick

Next ==
  \/ handleStartGame
  \/ resetGame
  \/ handleSaveScore("", FALSE)
  \/ /\ Played
     /\ now < MaxSpawns
     /\ Len(gameObjects) < MaxItems
     /\ \E draw \in SpawnDraws : SpawnTick(draw)
  \/ FallTick
  \/ (Played /\ SweepTick /\ NearStart)
  \/ ((timeLeft > LateWindow => Quiet) /\ CountdownTick)
  \/ (Played /\ ClickMoment /\ Len(timeouts) < MaxTimeouts /\ CatchClick)
  \/ CatchTimeout
  \/ LiftTimeout
  \/ FeedbackTimeout
  \/ RunEffects

Spec == Init /\ [][Next]_vars

----------------------------------------------------------------------------
(* The hook alone: the sweep over the whole board, across ends and         *)
(* restarts, with no items in play.                                        *)

NextSweep ==
  \/ handleStartGame
  \/ resetGame
  \/ handleSaveScore("", FALSE)
  \/ (Played /\ SweepTick)
  \/ ((timeLeft > LateWindow => Quiet) /\ CountdownTick)
  \/ RunEffects

SpecSweep == Init /\ [][NextSweep]_vars

----------------------------------------------------------------------------
(* A session played up to the target score: the best fish is spawned over  *)
(* the hook and caught as soon as it is in reach, until the target is met. *)
(* The countdown keeps pace with the spawner: SPAWN_INTERVAL divided by    *)
(* COUNTDOWN_INTERVAL ticks pass before each spawn, while nothing is in    *)
(* flight.                                                                 *)

TargetDraw == [x |-> 245, type |-> "fish", points |-> 59]
TargetSpawns == (TARGET_SCORE + TargetDraw.points - 1) \div TargetDraw.points
TargetPace == GAME_DURATION - (SPAWN_INTERVAL \div COUNTDOWN_INTERVAL) * (now + 1)
TargetClick == \A i \in 1..Len(gameObjects) : gameObjects[i].y = HOOK_Y - CATCH_DY + FALL_STEP

NextTarget ==
  \/ handleStartGame
  \/ /\ now < TargetSpawns
     /\ Len(gameObjects) < MaxItems
     /\ timeLeft = TargetPace
     /\ SpawnTick(TargetDraw)
  \/ FallTick
  \/ (SweepTick /\ NearStart)
  \/ (Quiet /\ timeLeft > TargetPace /\ CountdownTick)
  \/ (TargetClick /\ Len(timeouts) < MaxTimeouts /\ CatchClick)
  \/ CatchTimeout
  \/ LiftTimeout
  \/ FeedbackTimeout
  \/ RunEffects

SpecTarget == Init /\ [][NextTarget]_vars

\* The same sessions, each followed by Play Again Without Saving
NextTargetAgain == NextTarget \/ resetGame

SpecTargetAgain == Init /\ [][NextTargetAgain]_vars

\* The same sessions, where the player may also stop catching and let the
\* clock run out
NextEnds ==
  \/ NextTargetAgain
  \/ (Quiet /\ timeLeft <= TargetPace /\ CountdownTick)

SpecEnds == Init /\ [][NextEnds]_vars

----------------------------------------------------------------------------
(* The item collection: one session with several live items at a time.  A  *)
(* new item is spawned one fall tick after the last one (timers throttled  *)
(* to a common rate) or SPAWN_INTERVAL / FALL_INTERVAL fall ticks after    *)
(* it; Catch! is pressed on an empty board or when the oldest item is at   *)
(* one of ClickYs.                                                         *)

ItemsLen == MaxItems + 1
ItemSpawns == MaxSpawns + 1

ItemDraws == { NewItem(245, "fish", 39), NewItem(211, "garbage", 19),
               NewItem(210, "mystery", 100) }

SpawnGapYs == {FALL_STEP, (SPAWN_INTERVAL \div FALL_INTERVAL) * FALL_STEP}

SpawnGap ==
  IF gameObjects = <<>> THEN TRUE ELSE gameObjects[Len(gameObjects)].y \in SpawnGapYs

ItemsClick == IF gameObjects = <<>> THEN TRUE ELSE gameObjects[1].y \in ClickYs

NextItems ==
  \/ handleStartGame
  \/ /\ now < ItemSpawns
     /\ Len(gameObjects) < ItemsLen
     /\ SpawnGap
     /\ \E draw \in ItemDraws : SpawnTick(draw)
  \/ FallTick
  \/ (ItemsClick /\ Len(timeouts) < MaxTimeouts /\ CatchClick)
  \/ CatchTimeout
  \/ LiftTimeout
  \/ FeedbackTimeout
  \/ RunEffects

SpecItems == Init /\ [][NextItems]_vars

(* The item collection across restarts: the sessions of NextItems run out  *)
(* of time, with items live in the last LateWindow seconds, and are        *)
(* followed by Play Again Without Saving or by Save Score and Play Again.  *)
\* The best fish over the hook, and items at the two ends of the range of x
AgainDraws == { TargetDraw, NewItem(SpawnX(0), "garbage", 0),
                NewItem(SpawnX(419), "mystery", 0) }

NextItemsAgain ==
  \/ handleStartGame
  \/ resetGame
  \/ handleSaveScore("", FALSE)
  \/ /\ Played
     /\ now < ItemSpawns
     /\ Len(gameObjects) < ItemsLen
     /\ SpawnGap
     /\ \E draw \in AgainDraws : SpawnTick(draw)
  \/ FallTick
  \/ PacedCountdown
  \/ (Played /\ ItemsClick /\ timeouts = <<>> /\ CatchClick)
  \/ CatchTimeout
  \/ LiftTimeout
  \/ FeedbackTimeout
  \/ RunEffects

SpecItemsAgain == Init /\ [][NextItemsAgain]_vars

----------------------------------------------------------------------------
(* Sessions with no start request while one is running, and no sweep: the  *)
(* schedules of the full model, in which the seconds between the first and *)
(* the last pass once nothing is in flight, with Catch! pressed when no    *)
(* callback is pending.  The browser runs every timer callback that is due *)
(* and React flushes pending effects, so the interval and delayed          *)
(* callbacks are scheduled fairly.                                         *)

NextLive ==
  \/ handleStartGame
  \/ handleSaveScore("", FALSE)
  \/ /\ timeLeft = GAME_DURATION
     /\ now < MaxSpawns
     /\ Len(gameObjects) < MaxItems
     /\ SpawnTick(TargetDraw)
  \/ FallTick
  \/ PacedCountdown
  \/ (Played /\ ClickMoment /\ timeouts = <<>> /\ CatchClick)
  \/ CatchTimeout
  \/ LiftTimeout
  \/ FeedbackTimeout
  \/ RunEffects

SpecLive ==
  /\ Init
  /\ [][NextLive]_vars
  /\ SF_vars(PacedCountdown)
  /\ SF_vars(FallTick)
  /\ SF_vars(CatchTimeout)
  /\ SF_vars(LiftTimeout)
  /\ SF_vars(FeedbackTimeout)
  /\ WF_vars(RunEffects)

----------------------------------------------------------------------------
(* The components that read and edit the scores collection.  A component   *)
(* is mounted while its condition in Game.jsx holds (ScoreManager while    *)
(* the session is inactive, the leaderboard while the game-over screen is  *)
(* shown) and starts with its initial state at every mount.  A request is  *)
(* taken to settle before the next event.                                  *)

LEADERBOARD_LIMIT == 10
MANAGER_LIMIT == 100

\* ScoreManager: loadScores as started by the mount effect
loadScores(ok) ==
  /\ ~EffectsPending
  /\ ~isGameActive
  /\ loading
  /\ LET c == GetHighScoresCall(ok)
     IN /\ scores' = IF c.rejected THEN scores ELSE GetHighScores(scoresDb, MANAGER_LIMIT)
        /\ error' = IF c.rejected THEN "Failed to load scores" ELSE NULL
        /\ calls' = <<c>>
  /\ loading' = FALSE
  /\ lastOp' = "load"
  /\ UNCHANGED <<hookVars, gameOver, flushed, feedbackTimer, timeouts, now, lag,
                 removedPoints, localStorage, scoresDb, highScoresDb,
                 highScores, highScoresLoading, highScoresError>>

\* The leaderboard of the game-over screen: loadHighScores of its mount effect
loadHighScores(ok) ==
  /\ ~EffectsPending
  /\ gameOver
  /\ highScoresLoading
  /\ LET c == GetHighScoresCall(ok)
     IN /\ highScores' = IF c.rejected THEN highScores
                          ELSE GetHighScores(scoresDb, LEADERBOARD_LIMIT)
        /\ highScoresError' = IF c.rejected
                               THEN "Failed to load high scores. Please try again later."
                               ELSE highScoresError
        /\ calls' = <<c>>
  /\ highScoresLoading' = FALSE
  /\ lastOp' = "loadHighScores"
  /\ UNCHANGED <<hookVars, gameOver, flushed, feedbackTimer, timeouts, now, lag,
                 removedPoints, localStorage, scoresDb, highScoresDb, scores, loading, error>>

\* The rows of the manager are rendered once it has loaded without an error.
ListShown == (~isGameActive) /\ (~loading) /\ error = NULL

\* handleDelete calling deleteScore whatever the answer to the confirmation
handleDeleteUnasked(scoreId, confirmed, ok, okLoad) ==
  /\ ~EffectsPending
  /\ ListShown
  /\ \E i \in 1..Len(scores) : scores[i].id = scoreId
  /\ LET d == DeleteScoreCall(ok)
         g == GetHighScoresCall(okLoad)
     IN IF d.rejected
          THEN /\ error' = "Failed to delete score"
               /\ calls' = <<d>>
               /\ UNCHANGED <<scoresDb, scores>>
          ELSE /\ scoresDb' = DeleteDoc(scoresDb, scoreId)
               /\ scores' = IF g.rejected THEN scores
                             ELSE GetHighScores(scoresDb', MANAGER_LIMIT)
               /\ error' = NULL
               /\ calls' = <<d, g>>
  /\ lastOp' = IF confirmed THEN "delete" ELSE "deleteDeclined"
  /\ UNCHANGED <<hookVars, gameOver, flushed, feedbackTimer, timeouts, now, lag,
                 removedPoints, localStorage, highScoresDb, loading,
                 highScores, highScoresLoading, highScoresError>>

(* ScoreManager: the Delete button of a row.  confirmed is the answer to   *)
(* window.confirm.  After a successful delete the list is reloaded; the    *)
(* error a failed reload sets is cleared by the setError(null) that        *)
(* follows it.                                                             *)
handleDelete(scoreId, confirmed, ok, okLoad) ==
  /\ ~EffectsPending
  /\ ListShown
  /\ \E i \in 1..Len(scores) : scores[i].id = scoreId
  /\ IF confirmed
       THEN /\ LET d == DeleteScoreCall(ok)
                   g == GetHighScoresCall(okLoad)
               IN IF d.rejected
                    THEN /\ error' = "Failed to delete score"
                         /\ calls' = <<d>>
                         /\ UNCHANGED <<scoresDb, scores>>
                    ELSE /\ scoresDb' = DeleteDoc(scoresDb, scoreId)
                         /\ scores' = IF g.rejected THEN scores
                                       ELSE GetHighScores(scoresDb', MANAGER_LIMIT)
                         /\ error' = NULL
                         /\ calls' = <<d, g>>
            /\ lastOp' = "delete"
       ELSE /\ calls' = <<>>
            /\ lastOp' = "deleteDeclined"
            /\ UNCHANGED <<scoresDb, scores, error>>
  /\ UNCHANGED <<hookVars, gameOver, flushed, feedbackTimer, timeouts, now, lag,
                 removedPoints, localStorage, highScoresDb, loading,
                 highScores, highScoresLoading, highScoresError>>

(* ScoreManager: a change of the number in the edit form of a row;         *)
(* newScore is the parsed input (editingScore, which only selects the row  *)
(* that shows the form, is left out).                                      *)
handleUpdate(scoreId, newScore, ok, okLoad) ==
  /\ ~EffectsPending
  /\ ListShown
  /\ \E i \in 1..Len(scores) : scores[i].id = scoreId
  /\ LET u == UpdateScoreCall(ok)
         g == GetHighScoresCall(okLoad)
     IN IF u.rejected
          THEN /\ error' = "Failed to update score"
               /\ calls' = <<u>>
               /\ UNCHANGED <<scoresDb, scores>>
          ELSE /\ scoresDb' = UpdateDoc(scoresDb, scoreId, newScore)
               /\ scores' = IF g.rejected THEN scores
                             ELSE GetHighScores(scoresDb', MANAGER_LIMIT)
               /\ error' = NULL
               /\ calls' = <<u, g>>
  /\ lastOp' = "update"
  /\ UNCHANGED <<hookVars, gameOver, flushed, feedbackTimer, timeouts, now, lag,
                 removedPoints, localStorage, highScoresDb, loading,
                 highScores, highScoresLoading, highScoresError>>

----------------------------------------------------------------------------
(* Saving and the leaderboard: sessions played to the end of the clock,    *)
(* with at most MaxSpawns fish caught on the way, then saved under a name  *)
(* or left unsaved, against a scores collection that already holds         *)
(* documents.                                                              *)

MaxSaved == 1         \* documents written by Save Score

PlayerNames == {"", "Ann"}

\* The documents of a collection, from their scores in identifier order
Docs(points) ==
  { [id |-> i, score |-> points[i], playerName |-> "Bo"] : i \in 1..Len(points) }

\* Collections with more documents than the leaderboard shows, with equal
\* scores on both sides of its limit, and with none
ScoreDbs ==
  { {}, Docs(<<30, 30, 70>>),
    Docs(<<0, 10, 10, 20, 20, 30, 30, 40, 40, 50, 50, 60>>) }

InitScores ==
  /\ InitSession
  /\ scoresDb \in ScoreDbs
  /\ highScoresDb = {}

NextScores ==
  \/ handleStartGame
  \/ resetGame
  \/ \E playerName \in PlayerNames, ok \in BOOLEAN :
       /\ ok => Cardinality(highScoresDb) < MaxSaved
       /\ handleSaveScore(playerName, ok)
  \/ /\ now < MaxSpawns
     /\ gameObjects = <<>>
     /\ timeLeft = GAME_DURATION
     /\ SpawnTick(TargetDraw)
  \/ FallTick
  \/ (gameObjects # <<>> /\ TargetClick /\ Len(timeouts) < MaxTimeouts /\ CatchClick)
  \/ CatchTimeout
  \/ LiftTimeout
  \/ FeedbackTimeout
  \/ (Quiet /\ CountdownTick)
  \/ RunEffects
  \/ \E ok \in BOOLEAN : loadScores(ok)
  \/ \E ok \in BOOLEAN : loadHighScores(ok)

SpecScores == InitScores /\ [][NextScores]_vars

----------------------------------------------------------------------------
(* The score manager before a game is started: the list is loaded, rows    *)
(* are edited and deleted.                                                 *)

NewScores == {0, 55}

ManagerDbs == { Docs(<<30, 30, 70>>), Docs(<<20>>) }

InitManager ==
  /\ InitSession
  /\ scoresDb \in ManagerDbs
  /\ highScoresDb = {}

NextManager ==
  \/ \E ok \in BOOLEAN : loadScores(ok)
  \/ \E scoreId \in { r.id : r \in scoresDb }, confirmed, ok, okLoad \in BOOLEAN :
       handleDelete(scoreId, confirmed, ok, okLoad)
  \/ \E scoreId \in { r.id : r \in scoresDb }, newScore \in NewScores, ok, okLoad \in BOOLEAN :
       handleUpdate(scoreId, newScore, ok, okLoad)

SpecManager == InitManager /\ [][NextManager]_vars

----------------------------------------------------------------------------
(* Properties *)

IntervalOps == {"spawn", "fall", "sweep", "countdown"}

\* C1: in every reachable state of a session, score equals the sum of the
\* point values of the items that successful catches removed from the live
\* item collection in that session.
C1_ScoreIsSumOfRemoved == score = removedPoints

\* C2: once the session has ended, a pending delayed callback of a catch
\* that was in flight at the end does not change score, the item collection
\* or lastCaughtItem.
C2_EndAbandonsCatch ==
  [][(~isGameActive /\ lastOp' \in {"catch", "lift"})
       => UNCHANGED <<score, gameObjects, lastCaughtItem>>]_vars

\* C3: a delayed catch callback scheduled before startGame reset the state
\* changes none of score, gameObjects, catchAnimation and lastCaughtItem of
\* the new session.
C3_StaleCallbackInert ==
  [][(/\ timeouts # <<>>
      /\ Head(timeouts).prev
      /\ lastOp' \in {"catch", "lift"})
       => UNCHANGED <<score, gameObjects, catchAnimation, lastCaughtItem>>]_vars

\* C4: when D1 elapses, the catch succeeds exactly when some item of the
\* collection live at that moment is within the tolerances of the hook's
\* position at that moment, and that item is the one caught.
C4_CatchEvaluatedLive ==
  [][lastOp' = "catch"
       => LET live == FindCaught(gameObjects, hookPosition)
          IN IF live = <<>>
               THEN catchAnimation' = NULL /\ UNCHANGED <<score, lastCaughtItem>>
               ELSE catchAnimation' = "lifting" /\ lastCaughtItem' = live]_vars

\* C5: no spawn, fall, sweep or countdown tick is processed in a state where
\* timeLeft = 0 and isGameActive is still true.
C5_NoTickAtZero ==
  [][(timeLeft = 0 /\ isGameActive) => lastOp' \notin IntervalOps]_vars

\* C6: no spawn, fall, sweep or countdown tick is processed in a state where
\* score >= TARGET_SCORE and isGameActive is still true.
C6_NoTickAtTarget ==
  [][(score >= TARGET_SCORE /\ isGameActive) => lastOp' \notin IntervalOps]_vars

\* C7: after the session has ended and until the next start request, the
\* interval callbacks mutate nothing: gameObjects, hookPosition, hookDirection
\* and timeLeft are unchanged by them.
C7_EndedIsFrozen ==
  [][(~isGameActive /\ lastOp' \in IntervalOps)
       => UNCHANGED <<gameObjects, hookPosition, hookDirection, timeLeft>>]_vars

\* C8: in every reachable state hookPosition lies within
\* [MIN_POSITION, MAX_POSITION], also after a sweep tick that ran with a
\* direction the previous tick had already flipped.
C8_HookInBounds == MIN_POSITION <= hookPosition /\ hookPosition <= MAX_POSITION

\* A sweep tick has run at the upper bound with the direction it closed over
\* before the flip of the previous tick.
C8_Witness ==
  /\ lastOp = "sweep"
  /\ lag > 0
  /\ hookPosition = MAX_POSITION
  /\ hookDirection = 0 - 1
  /\ flushed.hookDirection = 1

\* C9: at most one catch is in flight: there is never more than one pending
\* D1 or D2 callback.
C9_OneInFlight == Len(timeouts) <= 1

C11_StartWhileActiveIsNoOp ==
  [][(isGameActive /\ lastOp' \in {"start", "reset"})
       => UNCHANGED <<score, timeLeft, gameObjects, hookPosition, hookDirection,
                      catchAnimation, lastCaughtItem>>]_vars

\* C12: a start request from the idle or the ended state produces score = 0,
\* timeLeft = GAME_DURATION, isGameActive, no items, the hook at its start
\* position moving right, no animation and no snapshot, whatever the state
\* before was.
C12_StartResets ==
  [][(~isGameActive /\ lastOp' \in {"start", "reset"})
       => /\ score' = 0
          /\ timeLeft' = GAME_DURATION
          /\ isGameActive'
          /\ gameObjects' = <<>>
          /\ hookPosition' = HOOK_START
          /\ hookDirection' = 1
          /\ catchAnimation' = NULL
          /\ lastCaughtItem' = <<>>]_vars

\* A session has been started from the ended state of an earlier one: an
\* item had been spawned, and a catch of the earlier session is still pending.
C12_Witness ==
  /\ lastOp \in {"start", "reset"}
  /\ now > 0
  /\ timeouts # <<>>
  /\ score = 0
  /\ timeLeft = GAME_DURATION
  /\ isGameActive
  /\ gameObjects = <<>>

\* C13: when the catch evaluation finds a qualifying item, exactly that one
\* item leaves the live collection and the others stay in their order, score
\* grows by that item's points, lastCaughtItem records its type and points
\* and catchAnimation becomes 'lifting'; the D2 callback returns
\* catchAnimation to null.
C13_CatchRemovesAndScores ==
  [][/\ (/\ lastOp' = "catch"
         /\ FindCaught(Head(timeouts).objs, Head(timeouts).hookX) # <<>>)
          => LET found == FindCaught(Head(timeouts).objs, Head(timeouts).hookX)[1]
             IN /\ Len(gameObjects') = Len(gameObjects) - 1
                /\ gameObjects' = WithoutId(gameObjects, found.id)
                /\ score' = score + found.points
                /\ lastCaughtItem' # <<>>
                /\ lastCaughtItem'[1].type = found.type
                /\ lastCaughtItem'[1].points = found.points
                /\ catchAnimation' = "lifting"
     /\ lastOp' = "lift" => catchAnimation' = NULL]_vars

\* C14: when the catch evaluation finds no qualifying item, catchAnimation
\* becomes null after D1, with no 'lifting' phase and no D2 callback, and
\* score, gameObjects and lastCaughtItem are unchanged.
C14_MissOnlyClearsAnimation ==
  [][(/\ lastOp' = "catch"
      /\ FindCaught(Head(timeouts).objs, Head(timeouts).hookX) = <<>>)
       => /\ catchAnimation' = NULL
          /\ timeouts' = Tail(timeouts)
          /\ UNCHANGED <<score, gameObjects, lastCaughtItem>>]_vars

\* A D1 callback that found no item in its window has run while an item is
\* live: the animation is over, the item is still there and nothing scored.
C14_Witness ==
  /\ lastOp = "catch"
  /\ catchAnimation = NULL
  /\ timeouts = <<>>
  /\ gameObjects # <<>>
  /\ score = 0
  /\ lastCaughtItem = <<>>

\* C15: the item caught is the earliest in collection order among those with
\* |x - hookX| < 40 and |y - 350| < 100, nothing is caught when there is
\* none, and no other item is removed or scored by that catch.
C15_FirstQualifyingWins ==
  [][lastOp' = "catch"
       => LET c == Head(timeouts)
              InWindow(o) == /\ o.x - c.hookX < 40 /\ c.hookX - o.x < 40
                             /\ o.y - 350 < 100 /\ 350 - o.y < 100
              hits == { i \in 1..Len(c.objs) : InWindow(c.objs[i]) }
          IN IF hits = {}
               THEN UNCHANGED <<score, gameObjects, lastCaughtItem>>
               ELSE \E i \in hits :
                      /\ \A j \in hits : i <= j
                      /\ lastCaughtItem' = <<c.objs[i]>>
                      /\ score' = score + c.objs[i].points
                      /\ \A k \in 1..Len(gameObjects) :
                           gameObjects[k].id # c.objs[i].id
                             => \E m \in 1..Len(gameObjects') :
                                  gameObjects'[m] = gameObjects[k]]_vars

\* A catch has taken the older of two items and left a younger one that is
\* inside the catch window of the hook as well.
C15_Witness ==
  /\ lastOp = "catch"
  /\ lastCaughtItem # <<>>
  /\ \E k \in 1..Len(gameObjects) :
       /\ gameObjects[k].id > lastCaughtItem[1].id
       /\ Qualifies(gameObjects[k], hookPosition)

\* C16: a sweep tick changes hookDirection exactly when its result position
\* is a bound: from +1 to -1 only at MAX_POSITION, from -1 to +1 only at
\* MIN_POSITION; every other tick leaves the direction and moves the hook by
\* HOOK_STEP in the current direction.
C16_FlipIffClamp ==
  [][lastOp' = "sweep"
       => /\ (hookDirection' # hookDirection)
               <=> (hookPosition' \in {MIN_POSITION, MAX_POSITION})
          /\ (hookDirection = 1 /\ hookDirection' = 0 - 1)
               => hookPosition' = MAX_POSITION
          /\ (hookDirection = 0 - 1 /\ hookDirection' = 1)
               => hookPosition' = MIN_POSITION
          /\ (hookDirection' = hookDirection)
               => hookPosition' = hookPosition + hookDirection * HOOK_STEP]_vars

\* C17: a fall tick, in one step, moves every surviving item down by exactly
\* 5, drops every item whose new position is at or beyond 480, and keeps the
\* survivors' order, id, type, points and x.
C17_FallMovesAndPrunes ==
  [][lastOp' = "fall"
       => LET old == gameObjects
              new == gameObjects'
              Survives(o) == o.y + 5 < 480
          IN /\ \A i \in 1..Len(old) :
                  Survives(old[i]) <=> \E m \in 1..Len(new) : new[m].id = old[i].id
             /\ \A m \in 1..Len(new) :
                  /\ new[m].y < 480
                  /\ \E i \in 1..Len(old) :
                       /\ new[m].id = old[i].id
                       /\ new[m].y = old[i].y + 5
                       /\ new[m].type = old[i].type
                       /\ new[m].points = old[i].points
                       /\ new[m].x = old[i].x
             /\ Len(new) = Cardinality({ i \in 1..Len(old) : Survives(old[i]) })
             /\ \A m1, m2 \in 1..Len(new) :
                  m1 < m2 => \E i1, i2 \in 1..Len(old) :
                               /\ i1 < i2
                               /\ old[i1].id = new[m1].id
                               /\ old[i2].id = new[m2].id]_vars

\* A fall tick has pruned the older of two items, uncaught, at the lower
\* bound and moved the younger one, spawned one tick later, to just above it.
C17_Witness ==
  /\ lastOp = "fall"
  /\ Len(gameObjects) = 1
  /\ gameObjects[1].id = 2
  /\ gameObjects[1].y = FIELD_BOTTOM - FALL_STEP
  /\ score = 0
  /\ lastCaughtItem = <<>>

\* C18: a spawn tick runs only while the session is active; it appends
\* exactly one item with vertical position 0 at the end of the live
\* collection and leaves the existing items, score, timeLeft, the hook, the
\* animation phase and the snapshot as they are.
C18_SpawnAppendsWhileActive ==
  [][lastOp' = "spawn"
       => /\ isGameActive
          /\ Len(gameObjects') = Len(gameObjects) + 1
          /\ SubSeq(gameObjects', 1, Len(gameObjects)) = gameObjects
          /\ gameObjects'[Len(gameObjects')].y = 0
          /\ UNCHANGED <<score, timeLeft, hookPosition, hookDirection,
                         catchAnimation, lastCaughtItem>>]_vars

\* The range of the points of an item of each type
InPointRange(o) ==
  /\ o.type \in {"fish", "garbage", "mystery"}
  /\ o.points \in (IF o.type = "fish" THEN 20..59
                   ELSE IF o.type = "garbage" THEN (0 - 49)..(0 - 30)
                   ELSE (0 - 50)..50)

C20_TimeLeftCountsDown ==
  /\ [](timeLeft >= 0)
  /\ [][lastOp' \notin {"start", "reset"} => timeLeft' <= timeLeft]_vars
  /\ [][lastOp' = "countdown" => timeLeft' = timeLeft - 1]_vars

\* The countdown tick that brings timeLeft to 0 has run.
C20_Witness ==
  /\ lastOp = "countdown"
  /\ timeLeft = 0
  /\ isGameActive

\* C21: the feedback timeout that fires belongs to the current snapshot: a
\* timer started for an older snapshot never clears a newer one.
C21_TimerBelongsToSnapshot ==
  [][lastOp' = "feedback" => flushed.lastCaughtItem = lastCaughtItem]_vars

\* C22: a score is saved only after the session has ended: no Save Score
\* step (which calls saveHighScore) happens while isGameActive is true.
C22_SaveOnlyWhenEnded ==
  [][lastOp' = "save" => ~isGameActive]_vars

\* C28: a fall tick changes nothing but the item collection: score,
\* timeLeft, hookPosition, hookDirection, catchAnimation and lastCaughtItem
\* are unchanged by it, also when it prunes items.
C28_FallChangesItemsOnly ==
  [][lastOp' = "fall"
       => UNCHANGED <<score, timeLeft, hookPosition, hookDirection,
                      catchAnimation, lastCaughtItem>>]_vars

\* A fall tick has run during the extending phase of a request and left the
\* younger of two uncaught items just above the lower bound, the older one
\* having fallen off the board.
C28_Witness ==
  /\ lastOp = "fall"
  /\ catchAnimation = "dropping"
  /\ Len(gameObjects) = 1
  /\ gameObjects[1].id = 2
  /\ gameObjects[1].y = FIELD_BOTTOM - FALL_STEP
  /\ removedPoints = 0

C30_PhaseEdges ==
  [][catchAnimation' # catchAnimation
       => \/ lastOp' \in {"start", "reset"} /\ catchAnimation' = NULL
          \/ <<catchAnimation, catchAnimation'>> \in
               { <<NULL, "dropping">>, <<"dropping", "lifting">>,
                 <<"dropping", NULL>>, <<"lifting", NULL>> }]_vars

\* C23: every persistence call that fails reports the failure to its
\* caller: its promise rejects, for the save at game over as for the reads,
\* updates and deletes.
C23_FailureIsReported ==
  \A i \in 1..Len(calls) : calls[i].failed => calls[i].rejected

\* C24: a persistence failure does not alter the session: a step in which a
\* save or a load of scores fails leaves score, timeLeft and isGameActive
\* as they were, so an ended session stays ended with its final score.
C24_FailureKeepsSession ==
  [][(\E i \in 1..Len(calls') : calls'[i].failed)
       => UNCHANGED <<score, timeLeft, isGameActive>>]_vars

\* The save of a session that ended with a fish caught has just failed.
C24_Witness ==
  /\ lastOp = "save"
  /\ calls # <<>>
  /\ calls[1].failed
  /\ ~isGameActive
  /\ timeLeft = 0
  /\ score = TargetDraw.points

\* C25: save-then-read round trip: the document a successful Save Score
\* wrote is returned by the leaderboard read getHighScores(N), with the
\* name and points that were saved, whenever fewer than N documents of the
\* leaderboard have a higher score.
C25_SavedScoreIsListed ==
  [][(lastOp' = "save" /\ ~calls'[1].failed)
       => \A d \in highScoresDb' \ highScoresDb :
            LET top == GetHighScores(scoresDb', LEADERBOARD_LIMIT)
                higher == { r \in scoresDb' : r.score > d.score }
            IN Cardinality(higher) < LEADERBOARD_LIMIT
                 => \E i \in 1..Len(top) : /\ top[i].score = d.score
                                           /\ top[i].playerName = d.playerName]_vars

\* res is a top-n listing of db: at most n documents of db, each once and
\* with its identifier and fields, by descending score, none left out
\* unless n are listed and none listed has a lower score.
IsTopN(res, db, n) ==
  /\ Len(res) <= n
  /\ \A i \in 1..Len(res) : res[i] \in db
  /\ \A i, j \in 1..Len(res) : i < j => /\ res[i].id # res[j].id
                                        /\ res[i].score >= res[j].score
  /\ \A q \in db :
       (\A i \in 1..Len(res) : res[i].id # q.id)
         => /\ Len(res) = n
            /\ \A i \in 1..Len(res) : res[i].score >= q.score

\* C26: getHighScores(N) returns at most N documents of the scores
\* collection, ordered by score descending, each with its stored
\* identifier, and leaves out no document that scores higher than one it
\* returns; checked on every successful read of the leaderboard (N = 10)
\* and of the score manager (N = 100).
C26_ReadIsTopN ==
  /\ [][(lastOp' = "loadHighScores" /\ ~calls'[1].failed)
          => IsTopN(highScores', scoresDb, LEADERBOARD_LIMIT)]_vars
  /\ [][(lastOp' = "load" /\ ~calls'[1].failed)
          => IsTopN(scores', scoresDb, MANAGER_LIMIT)]_vars

\* The leaderboard has been read from a collection of more than N
\* documents: N are listed and the last one ties with one left out.
C26_Witness ==
  /\ lastOp = "loadHighScores"
  /\ Cardinality(scoresDb) > LEADERBOARD_LIMIT
  /\ Len(highScores) = LEADERBOARD_LIMIT
  /\ \E q \in scoresDb : /\ q.score = highScores[LEADERBOARD_LIMIT].score
                         /\ q.id # highScores[LEADERBOARD_LIMIT].id
                         /\ \A i \in 1..Len(highScores) : highScores[i].id # q.id

\* C27: a score document is deleted only after the user confirmed:
\* deleteScore is called in no step but a confirmed delete, and a declined
\* delete makes no persistence call and leaves the collection and the list
\* of the manager unchanged.
C27_DeleteOnlyConfirmed ==
  [][/\ (\E i \in 1..Len(calls') : calls'[i].fn = "deleteScore") => lastOp' = "delete"
     /\ lastOp' = "deleteDeclined"
          => /\ calls' = <<>>
             /\ UNCHANGED <<scoresDb, scores>>]_vars

\* The confirmation of a delete has just been declined with the whole
\* collection listed.
C27_Witness ==
  /\ lastOp = "deleteDeclined"
  /\ scores # <<>>
  /\ Len(scores) = Cardinality(scoresDb)
  /\ error = NULL

C32_SessionTerminates ==
  /\ isGameActive ~> ~isGameActive
  /\ [](isGameActive => (0 <= timeLeft /\ timeLeft <= GAME_DURATION))

\* A session has been ended by the clock.
C32_Witness ==
  /\ lastOp = "effects"
  /\ ~isGameActive
  /\ gameOver
  /\ timeLeft = 0

\* The items of objs have pairwise different ids.
DistinctIds(objs) ==
  \A i, j \in 1..Len(objs) : i # j => objs[i].id # objs[j].id

\* C33: no two items that are live at the same time share an id, across
\* spawns and across restarts, and a catch takes at most one item out of
\* the live collection, the one with the id of the caught item.
C33_LiveIdsDistinct ==
  /\ [](DistinctIds(gameObjects))
  /\ [][lastOp' = "catch"
          => /\ Len(gameObjects) - Len(gameObjects') <= 1
             /\ \A i \in 1..Len(gameObjects) :
                  (\A m \in 1..Len(gameObjects') : gameObjects'[m] # gameObjects[i])
                    => /\ lastCaughtItem' # <<>>
                       /\ gameObjects[i].id = lastCaughtItem'[1].id]_vars

\* The second item of a run has just been spawned in a session started by
\* Play Again Without Saving, the first one having been cleared or pruned.
C33_Witness ==
  /\ lastOp = "spawn"
  /\ gameOver /\ isGameActive
  /\ now = ItemSpawns
  /\ Len(gameObjects) = 1
  /\ gameObjects[1].id = now

\* Item o of the live collection is at position i of objs.
IsAt(objs, i, o) == objs[i].id = o.id

\* C34: every live item has 0 <= y < 480 and 40 <= x < 460; an item keeps
\* the x it was spawned with; it leaves the live collection only by the
\* pruning of a fall tick, by a catch that took it or by the clearing of a
\* start request; and an item that enters the collection is a new one,
\* stamped later than every item before it, so none reappears.
C34_ItemsStayOnBoard ==
  /\ [](\A i \in 1..Len(gameObjects) :
          /\ 0 <= gameObjects[i].y /\ gameObjects[i].y < FIELD_BOTTOM
          /\ 40 <= gameObjects[i].x /\ gameObjects[i].x < 460)
  /\ [][\A i \in 1..Len(gameObjects) :
          IF \E m \in 1..Len(gameObjects') : IsAt(gameObjects', m, gameObjects[i])
            THEN \A m \in 1..Len(gameObjects') :
                   IsAt(gameObjects', m, gameObjects[i])
                     => gameObjects'[m].x = gameObjects[i].x
            ELSE \/ lastOp' \in {"start", "reset"}
                 \/ lastOp' = "fall" /\ gameObjects[i].y + FALL_STEP >= FIELD_BOTTOM
                 \/ /\ lastOp' = "catch"
                    /\ lastCaughtItem' # <<>>
                    /\ lastCaughtItem'[1].id = gameObjects[i].id]_vars
  /\ [][\A m \in 1..Len(gameObjects') :
          (\A i \in 1..Len(gameObjects) : ~IsAt(gameObjects, i, gameObjects'[m]))
            => /\ lastOp' = "spawn"
               /\ gameObjects'[m].id > now]_vars

\* A fall tick has moved an item spawned at the right end of the range of x
\* to the last row of the board, with a younger item above it.
C34_Witness ==
  /\ lastOp = "fall"
  /\ isGameActive
  /\ Len(gameObjects) = 2
  /\ gameObjects[1].x = SpawnX(419)
  /\ gameObjects[1].y = FIELD_BOTTOM - FALL_STEP
  /\ gameObjects[2].x = SpawnX(0)

\* C35: the game-over screen is never shown over a running session: in every
\* reachable state gameOver implies that the session is not active, also
\* after Play Again Without Saving and after Save Score.
C35_GameOverMeansEnded ==
  gameOver => ~isGameActive

\* C36: whenever a session goes from active to ended, by the countdown
\* reaching 0 or by the score reaching the target, gameOver is true after the
\* step and the score is the one the session ended with; when the clock ends
\* the session, the hook's timer effect and the time-out effect of Game both
\* call endGame in that one step.
C36_EndingShowsGameOver ==
  [][(isGameActive /\ ~isGameActive')
       => /\ gameOver'
          /\ score' = score
          /\ TimerEffectEnds => TimeOutEffectEnds]_vars

C36_Witness ==
  /\ lastOp = "effects"
  /\ ~isGameActive
  /\ flushed.isGameActive
  /\ gameOver
  /\ timeLeft = 0
  /\ score > 0
  /\ score < TARGET_SCORE

\* C37: endGame changes only the active flag: a flush that calls endGame
\* leaves score, timeLeft, gameObjects, hookPosition, hookDirection,
\* catchAnimation and lastCaughtItem as they were, and on an already ended
\* session it changes neither isGameActive nor gameOver; so the score of an
\* ended session on the game-over screen stays the score it ended with.
C37_EndGameOnlyEnds ==
  [][/\ (lastOp' = "effects" /\ (TimerEffectEnds \/ TimeOutEffectEnds \/ TargetEffectEnds))
          => /\ ~isGameActive'
             /\ UNCHANGED <<score, timeLeft, gameObjects, hookPosition, hookDirection,
                            catchAnimation, lastCaughtItem>>
             /\ ~isGameActive => UNCHANGED <<isGameActive, gameOver>>
     /\ (~isGameActive /\ gameOver /\ ~isGameActive' /\ gameOver') => score' = score]_vars

\* C38: the localStorage snapshot only observes the session: once the pending
\* effects have run, a snapshot that is present holds the current score and
\* timeLeft, and right after a start request it is absent or holds
\* {0, GAME_DURATION}, never a value of the previous session.
C38_SnapshotObserves ==
  /\ (~EffectsPending /\ localStorage # <<>>)
       => localStorage = <<[score |-> score, timeLeft |-> timeLeft]>>
  /\ lastOp \in {"start", "reset"}
       => localStorage \in { <<>>, <<[score |-> 0, timeLeft |-> GAME_DURATION]>> }

C38_Witness ==
  /\ lastOp = "effects"
  /\ ~EffectsPending
  /\ gameOver /\ isGameActive
  /\ timeLeft < GAME_DURATION
  /\ localStorage = <<[score |-> score, timeLeft |-> timeLeft]>>

====
